---- MODULE Spec2Model ----
(***************************************************************************)
(* Suvari pricing-intelligence cloud function                              *)
(* (src/pricing-intelligence-engine/cloud-functions/main.py).              *)
(*                                                                         *)
(* Text is modelled by TLA+ strings, read character by character with      *)
(* SubSeq.  TLA+ strings are ASCII, so the six Turkish letters of the      *)
(* keyword table are written as digits, one character each:                *)
(*     dotless i -> 1, s-cedilla -> 5, c-cedilla -> 6, g-breve -> 9,       *)
(*     u-umlaut -> 7, o-umlaut -> 8                                        *)
(* and the emoji that start the label strings are written as a bracketed   *)
(* tag ("[money] Strong Price Advantage").                                 *)
(***************************************************************************)
EXTENDS Integers, Sequences, FiniteSets, TLC

VARIABLES
    iq,         \* detect_query_intent: the argument of the call under test
    ires,       \* detect_query_intent: its outcome, NoCall before the call
    pc,         \* pricing_intel_query: the statement the handler is at
    request,    \* pricing_intel_query: what request.get_json(silent=True) yields
    locals,     \* pricing_intel_query: its local variables, by name (Python locals())
    exc,        \* pricing_intel_query: class of the exception in flight, "" if none
    jobs,       \* the warehouse: the queries it was asked to run, in order
    response,   \* pricing_intel_query: the (body, status) returned, NoResponse before
    arows,      \* analysis and summary on their own: the rows argument
    aquery_type, \* analysis and summary on their own: the query_type argument
    aresult,    \* analyze_pricing_results: its outcome, NoCall before the call
    sresult,    \* calculate_pricing_summary: its outcome, NoCall before the call
    qtable,     \* a query on its own: the warehouse table it reads (name and rows)
    qresult     \* a query on its own: the rows it returned, NoCall before it ran

ivars == <<iq, ires>>
hvars == <<pc, request, locals, exc, jobs, response>>
avars == <<arows, aquery_type, aresult, sresult>>
qvars == <<qtable, qresult>>
vars == <<iq, ires, pc, request, locals, exc, jobs, response,
          arows, aquery_type, aresult, sresult, qtable, qresult>>

(***************************************************************************)
(* JSON values.  Every value has the same three fields so that any two can *)
(* be compared: t is the JSON type, s the text of a string, n the number   *)
(* (an integer, a float in tenths, a bool as 0/1, or the length of a list  *)
(* or object).  A FLOAT64 cell of a warehouse row is a Float64, its number *)
(* in hundredths: Float64(49996) is 499.96.                                *)
(***************************************************************************)
JStr(s) == [t |-> "str", s |-> s, n |-> 0]
JInt(n) == [t |-> "int", s |-> "", n |-> n]
JFloat(tenths) == [t |-> "float", s |-> "", n |-> tenths]
JBool(b) == [t |-> "bool", s |-> "", n |-> IF b THEN 1 ELSE 0]
JList(len) == [t |-> "list", s |-> "", n |-> len]
JObj(len) == [t |-> "object", s |-> "", n |-> len]
Float64(hundredths) == [t |-> "float64", s |-> "", n |-> hundredths]
None == [t |-> "null", s |-> "", n |-> 0]

\* Python truth value of a JSON value, as `x or y` tests it.
Truthy(v) ==
    CASE v.t = "str" -> v.s # ""
      [] v.t = "null" -> FALSE
      [] OTHER -> v.n # 0

\* The outcome of a call: the value returned, or the class of the exception raised.
Ret(v) == [raised |-> "", value |-> v]
Raise(cls) == [raised |-> cls, value |-> None]
NoCall == [raised |-> "not called", value |-> None]

(***************************************************************************)
(* String helpers: str.lower, `in` on strings, str.split("|").             *)
(***************************************************************************)
UpperCase == "ABCDEFGHIJKLMNOPQRSTUVWXYZ"
LowerCase == "abcdefghijklmnopqrstuvwxyz"

CharLower(c) ==
    IF \E i \in 1..Len(UpperCase) : SubSeq(UpperCase, i, i) = c
    THEN LET i == CHOOSE i \in 1..Len(UpperCase) : SubSeq(UpperCase, i, i) = c
         IN  SubSeq(LowerCase, i, i)
    ELSE c

RECURSIVE StrLower(_)
StrLower(s) ==
    IF s = "" THEN ""
    ELSE CharLower(SubSeq(s, 1, 1)) \o StrLower(SubSeq(s, 2, Len(s)))

\* Python `word in q` for two strings.
StrIn(word, q) ==
    \E i \in 1..(Len(q) - Len(word) + 1) : SubSeq(q, i, i + Len(word) - 1) = word

\* Position of the first "|" of s, or 0.
RECURSIVE FirstBar(_, _)
FirstBar(s, i) ==
    IF i > Len(s) THEN 0
    ELSE IF SubSeq(s, i, i) = "|" THEN i
    ELSE FirstBar(s, i + 1)

\* Python pattern.split("|").
RECURSIVE SplitBar(_)
SplitBar(s) ==
    LET b == FirstBar(s, 1)
    IN  IF b = 0 THEN <<s>>
        ELSE <<SubSeq(s, 1, b - 1)>> \o SplitBar(SubSeq(s, b + 1, Len(s)))

(***************************************************************************)
(* detect_query_intent                                                     *)
(***************************************************************************)
\* The `patterns` dict, in insertion order (the order a Python dict iterates in).
patterns == <<
    [intent |-> "competitor_tracking", pattern_list |-> <<
        "competitor|rakip|competition", "price|fiyat|pricing", "market|pazar",
        "positioning|konum", "comparison|kar51la5t1rma", "advantage|avantaj">>],
    [intent |-> "campaign_performance", pattern_list |-> <<
        "campaign|kampanya|promotion", "roi|kar|return", "marketing|pazarlama",
        "discount|indirim", "performance|ba5ar1", "effectiveness|etkinlik">>],
    [intent |-> "price_elasticity", pattern_list |-> <<
        "elasticity|elastikiyet|optimization", "optimal|optimum", "demand|talep",
        "sensitivity|hassasiyet", "revenue|gelir", "margin|kar">>],
    [intent |-> "promotional_calendar", pattern_list |-> <<
        "calendar|takvim|schedule", "planning|planlama", "future|gelecek",
        "budget|b7t6e", "timeline|zaman", "seasonal|mevsimsel">>]
    >>

\* any(word in q for word in pattern.split("|"))
PatternHits(pattern, q) ==
    LET words == SplitBar(pattern)
    IN  \E k \in 1..Len(words) : StrIn(words[k], q)

\* The two nested for loops, from entry i of patterns and pattern j of its list.
RECURSIVE IntentLoop(_, _, _)
IntentLoop(q, i, j) ==
    IF i > Len(patterns) THEN "competitor_tracking"
    ELSE IF j > Len(patterns[i].pattern_list) THEN IntentLoop(q, i + 1, 1)
    ELSE IF PatternHits(patterns[i].pattern_list[j], q) THEN patterns[i].intent
    ELSE IntentLoop(q, i, j + 1)

\* detect_query_intent with no lower-casing of the question.
DetectNoLower(question) ==
    IF Truthy(question) /\ question.t # "str" THEN Raise("AttributeError")
    ELSE Ret(JStr(IntentLoop(IF Truthy(question) THEN question.s ELSE "", 1, 1)))

\* q = (question or "").lower(): a truthy non-string has no .lower().
detect_query_intent(question) ==
    IF Truthy(question) /\ question.t # "str" THEN Raise("AttributeError")
    ELSE Ret(JStr(IntentLoop(StrLower(IF Truthy(question) THEN question.s ELSE ""), 1, 1)))


(***************************************************************************)
(* int(x), as line 805 applies it to the request's limit                   *)
(***************************************************************************)
Digits == "0123456789"

IsDigit(c) == \E i \in 1..Len(Digits) : SubSeq(Digits, i, i) = c

DigitVal(c) == (CHOOSE i \in 1..Len(Digits) : SubSeq(Digits, i, i) = c) - 1

\* The value of a non-empty string of decimal digits.
RECURSIVE DigitsVal(_)
DigitsVal(s) ==
    IF Len(s) = 1 THEN DigitVal(s)
    ELSE 10 * DigitsVal(SubSeq(s, 1, Len(s) - 1)) + DigitVal(SubSeq(s, Len(s), Len(s)))

AllDigits(s) == s # "" /\ \A i \in 1..Len(s) : IsDigit(SubSeq(s, i, i))

\* int(s) for a string: an optional sign and decimal digits, else ValueError.
IntOfStr(s) ==
    LET signed == s # "" /\ SubSeq(s, 1, 1) \in {"+", "-"}
        body == IF signed THEN SubSeq(s, 2, Len(s)) ELSE s
    IN  IF ~AllDigits(body) THEN Raise("ValueError")
        ELSE IF signed /\ SubSeq(s, 1, 1) = "-" THEN Ret(JInt(0 - DigitsVal(body)))
        ELSE Ret(JInt(DigitsVal(body)))

\* int(v): an int or bool is itself, a float is truncated toward zero, a string is
\* parsed, and None, a list or an object raise TypeError.
IntOf(v) ==
    CASE v.t \in {"int", "bool"} -> Ret(JInt(v.n))
      [] v.t = "float" -> Ret(JInt(IF v.n >= 0 THEN v.n \div 10 ELSE 0 - ((0 - v.n) \div 10)))
      [] v.t = "str" -> IntOfStr(v.s)
      [] OTHER -> Raise("TypeError")

Min(a, b) == IF a <= b THEN a ELSE b

(***************************************************************************)
(* SuvariPricingMetrics: the thresholds the queries use.                   *)
(***************************************************************************)
ROI_EXCELLENT_THRESHOLD == 500
ROI_GOOD_THRESHOLD == 300
ELASTICITY_HIGH_THRESHOLD == 2
ELASTICITY_LOW_THRESHOLD == 1
PRICE_ADVANTAGE_THRESHOLD == -15
PRICE_DISADVANTAGE_THRESHOLD == 10
MARKET_SHARE_POSITIVE_IMPACT == {"Positive", "Very Positive"}
UPLIFT_EXCELLENT_THRESHOLD == 40
UPLIFT_GOOD_THRESHOLD == 30

(***************************************************************************)
(* The label columns of the four queries (the CASE expressions of the      *)
(* final SELECT).  A cell is a JSON value; a comparison with a NULL cell   *)
(* is not true in SQL, so the WHEN branch is skipped.  Numbers are         *)
(* compared in hundredths.                                                 *)
(***************************************************************************)
IsNum(v) == v.t \in {"int", "float64"}
Scaled(v) == IF v.t = "float64" THEN v.n ELSE 100 * v.n
Ge(v, k) == IsNum(v) /\ Scaled(v) >= 100 * k
Le(v, k) == IsNum(v) /\ Scaled(v) <= 100 * k
Gt(v, k) == IsNum(v) /\ Scaled(v) > 100 * k
Lt(v, k) == IsNum(v) /\ Scaled(v) < 100 * k
Is(v, text) == v.t = "str" /\ v.s = text
Abs(n) == IF n < 0 THEN 0 - n ELSE n

\* competitive_position with the broader advantage branch tested before the dominant one.
CompetitivePositionBroadFirst(r) ==
    CASE Le(r.price_gap_pct, PRICE_ADVANTAGE_THRESHOLD)
            /\ r.market_share_impact.t = "str"
            /\ r.market_share_impact.s \in MARKET_SHARE_POSITIVE_IMPACT ->
            "[money] Strong Price Advantage"
      [] Le(r.price_gap_pct, -30) /\ Is(r.market_share_impact, "Very Positive") ->
            "[trophy] Dominant Market Position"
      [] Ge(r.price_gap_pct, -15) /\ Le(r.price_gap_pct, 15) -> "[scales] Competitive Parity"
      [] Ge(r.price_gap_pct, PRICE_DISADVANTAGE_THRESHOLD) -> "[red] Price Disadvantage"
      [] OTHER -> "[chart] Neutral Position"

\* sql_competitor_tracking
competitive_position(r) ==
    CASE Le(r.price_gap_pct, -30) /\ Is(r.market_share_impact, "Very Positive") ->
            "[trophy] Dominant Market Position"
      [] Le(r.price_gap_pct, PRICE_ADVANTAGE_THRESHOLD)
            /\ r.market_share_impact.t = "str"
            /\ r.market_share_impact.s \in MARKET_SHARE_POSITIVE_IMPACT ->
            "[money] Strong Price Advantage"
      [] Ge(r.price_gap_pct, -15) /\ Le(r.price_gap_pct, 15) -> "[scales] Competitive Parity"
      [] Ge(r.price_gap_pct, PRICE_DISADVANTAGE_THRESHOLD) -> "[red] Price Disadvantage"
      [] OTHER -> "[chart] Neutral Position"

promotional_environment(r) ==
    CASE Is(r.promotion_flag, "TRUE") /\ Ge(r.price_gap_pct, 0) ->
            "[warning] Competitor Promotional Pressure"
      [] Is(r.promotion_flag, "TRUE") -> "[target] Competitor Promo Activity"
      [] OTHER -> "[chart] Standard Competitive Environment"

value_proposition(r) ==
    CASE Is(r.quality_comparison, "Superior") /\ Le(r.price_gap_pct, 0) ->
            "[gem] Premium Value Proposition"
      [] Is(r.quality_comparison, "Superior") -> "[star] Quality Advantage"
      [] Is(r.quality_comparison, "Comparable") -> "[check] Quality Parity"
      [] OTHER -> "[up] Quality Improvement Opportunity"

\* sql_campaign_performance
campaign_performance_tier(r) ==
    CASE Ge(r.roi_pct, ROI_EXCELLENT_THRESHOLD) -> "[trophy] Excellent Campaign ROI"
      [] Ge(r.roi_pct, ROI_GOOD_THRESHOLD) -> "[check] Good Campaign Performance"
      [] Ge(r.roi_pct, 200) -> "[chart] Average Campaign Performance"
      [] OTHER -> "[down] Poor Campaign Performance"

retention_performance(r) ==
    CASE Ge(r.repeat_purchase_rate, 60) -> "[repeat] Excellent Customer Retention"
      [] Ge(r.repeat_purchase_rate, 40) -> "[check] Good Customer Retention"
      [] Ge(r.repeat_purchase_rate, 25) -> "[chart] Standard Customer Retention"
      [] OTHER -> "[up] Low Customer Retention"

acquisition_effectiveness(r) ==
    CASE Ge(r.customer_acquisition, 100) /\ Le(r.segment_cost_per_acquisition, 50) ->
            "[target] Efficient Customer Acquisition"
      [] Ge(r.customer_acquisition, 50) -> "[up] Good Customer Acquisition"
      [] Ge(r.customer_acquisition, 20) -> "[chart] Standard Acquisition"
      [] OTHER -> "[down] Low Acquisition Campaign"

\* sql_price_elasticity
sensitivity_classification(r) ==
    CASE Ge(r.elasticity_coefficient, ELASTICITY_HIGH_THRESHOLD) -> "[red] Highly Price Sensitive"
      [] Ge(r.elasticity_coefficient, ELASTICITY_LOW_THRESHOLD) ->
            "[warning] Moderately Price Sensitive"
      [] OTHER -> "[gem] Low Price Sensitivity"

pricing_strategy(r) ==
    CASE Is(r.recommendation, "Increase Price") /\ Gt(r.revenue_impact_pct, 5) ->
            "[up] Strong Price Increase Opportunity"
      [] Is(r.recommendation, "Increase Price") -> "[money] Price Increase Opportunity"
      [] Is(r.recommendation, "Decrease Price") /\ Gt(r.revenue_impact_pct, 10) ->
            "[target] Strategic Price Decrease"
      [] Is(r.recommendation, "Decrease Price") -> "[down] Price Reduction Recommended"
      [] OTHER -> "[scales] Maintain Current Pricing"

revenue_opportunity_level(r) ==
    CASE IsNum(r.revenue_impact_pct) /\ Abs(Scaled(r.revenue_impact_pct)) >= 1500 ->
            "[rocket] High Revenue Impact Potential"
      [] IsNum(r.revenue_impact_pct) /\ Abs(Scaled(r.revenue_impact_pct)) >= 1000 ->
            "[up] Significant Revenue Impact"
      [] IsNum(r.revenue_impact_pct) /\ Abs(Scaled(r.revenue_impact_pct)) >= 500 ->
            "[chart] Moderate Revenue Impact"
      [] OTHER -> "[down] Minimal Revenue Impact"

\* optimal > price * 1.1 and optimal < price * 0.9, both sides times ten.
price_optimization_status(r) ==
    CASE IsNum(r.optimal_price_usd) /\ IsNum(r.price_point_usd)
            /\ 10 * Scaled(r.optimal_price_usd) > 11 * Scaled(r.price_point_usd) -> "[money] Under-priced Product"
      [] IsNum(r.optimal_price_usd) /\ IsNum(r.price_point_usd)
            /\ 10 * Scaled(r.optimal_price_usd) < 9 * Scaled(r.price_point_usd) -> "[cash] Over-priced Product"
      [] OTHER -> "[check] Optimally Priced"

\* sql_promotional_calendar
campaign_priority_tier(r) ==
    CASE Ge(r.expected_uplift_pct, UPLIFT_EXCELLENT_THRESHOLD) /\ Le(r.budget_usd, 20000) ->
            "[rocket] High Impact Low Cost"
      [] Ge(r.expected_uplift_pct, UPLIFT_EXCELLENT_THRESHOLD) -> "[star] High Impact Campaign"
      [] Ge(r.expected_uplift_pct, UPLIFT_GOOD_THRESHOLD) -> "[up] Good Impact Campaign"
      [] Ge(r.expected_uplift_pct, 20) -> "[chart] Moderate Impact Campaign"
      [] OTHER -> "[down] Low Impact Campaign"

competitive_intensity(r) ==
    CASE Is(r.competitive_response, "High") /\ Ge(r.expected_uplift_pct, 35) ->
            "[swords] Competitive Battleground"
      [] Is(r.competitive_response, "High") -> "[warning] High Competitive Response Expected"
      [] Is(r.competitive_response, "Medium") -> "[chart] Moderate Competition"
      [] OTHER -> "[check] Low Competitive Pressure"

budget_scale(r) ==
    CASE Ge(r.budget_usd, 50000) -> "[money] Major Campaign Investment"
      [] Ge(r.budget_usd, 25000) -> "[cash] Significant Campaign Budget"
      [] Ge(r.budget_usd, 10000) -> "[bill] Standard Campaign Budget"
      [] OTHER -> "[card] Limited Budget Campaign"

duration_strategy(r) ==
    CASE Ge(r.campaign_duration_days, 30) -> "[calendar] Extended Campaign Period"
      [] Ge(r.campaign_duration_days, 14) -> "[spiral] Standard Campaign Period"
      [] Ge(r.campaign_duration_days, 7) -> "[zap] Short Campaign Period"
      [] OTHER -> "[rocket] Flash Campaign"

(***************************************************************************)
(* Rows.  A row (dict(r) of a result row) is a function from column names  *)
(* to cells.  A query's row carries the raw columns and the label columns  *)
(* computed from them; of a query's many columns the model keeps those     *)
(* that analyze_pricing_results and calculate_pricing_summary read and     *)
(* those the kept labels are computed from.  The labels are computed from  *)
(* the columns of the FROM clause; the SELECT list rounds some of them for *)
(* output under the same name.                                             *)
(***************************************************************************)
\* ROUND(v, places), half away from zero; NULL stays NULL.
ROUND(v, places) ==
    IF v.t # "float64" THEN v
    ELSE LET unit == CASE places = 0 -> 100 [] places = 1 -> 10 [] OTHER -> 1
             up(h) == ((2 * h + unit) \div (2 * unit)) * unit
         IN  Float64(IF v.n >= 0 THEN up(v.n) ELSE 0 - up(0 - v.n))

CompetitorRow(raw) ==
    [competitor |-> raw.competitor, market |-> raw.market,
     price_gap_pct |-> ROUND(raw.price_gap_pct, 1), promotion_flag |-> raw.promotion_flag,
     quality_comparison |-> raw.quality_comparison,
     market_share_impact |-> raw.market_share_impact,
     competitive_position |-> JStr(competitive_position(raw)),
     promotional_environment |-> JStr(promotional_environment(raw)),
     value_proposition |-> JStr(value_proposition(raw))]

CampaignRow(raw) ==
    [campaign_name |-> raw.campaign_name,
     revenue_generated |-> ROUND(raw.revenue_generated, 2),
     campaign_cost |-> ROUND(raw.campaign_cost, 2), roi_pct |-> ROUND(raw.roi_pct, 1),
     customer_acquisition |-> raw.customer_acquisition,
     repeat_purchase_rate |-> ROUND(raw.repeat_purchase_rate, 1),
     segment_cost_per_acquisition |-> raw.segment_cost_per_acquisition,
     campaign_performance_tier |-> JStr(campaign_performance_tier(raw)),
     retention_performance |-> JStr(retention_performance(raw)),
     acquisition_effectiveness |-> JStr(acquisition_effectiveness(raw))]

ElasticityRow(raw) ==
    [market |-> raw.market, price_point_usd |-> raw.price_point_usd,
     elasticity_coefficient |-> ROUND(raw.elasticity_coefficient, 2),
     optimal_price_usd |-> raw.optimal_price_usd,
     revenue_impact_pct |-> ROUND(raw.revenue_impact_pct, 1), recommendation |-> raw.recommendation,
     sensitivity_classification |-> JStr(sensitivity_classification(raw)),
     pricing_strategy |-> JStr(pricing_strategy(raw)),
     revenue_opportunity_level |-> JStr(revenue_opportunity_level(raw)),
     price_optimization_status |-> JStr(price_optimization_status(raw))]

PromotionalRow(raw) ==
    [target_market |-> raw.target_market, expected_uplift_pct |-> raw.expected_uplift_pct,
     budget_usd |-> raw.budget_usd, competitive_response |-> raw.competitive_response,
     campaign_duration_days |-> raw.campaign_duration_days,
     campaign_priority_tier |-> JStr(campaign_priority_tier(raw)),
     competitive_intensity |-> JStr(competitive_intensity(raw)),
     budget_scale |-> JStr(budget_scale(raw)),
     duration_strategy |-> JStr(duration_strategy(raw))]

\* r.get(col, default)
RowGet(r, col, default) == IF col \in DOMAIN r THEN r[col] ELSE default

\* The decimal digits of a natural number.
RECURSIVE NatStr(_)
NatStr(n) ==
    IF n < 10 THEN SubSeq(Digits, n + 1, n + 1)
    ELSE NatStr(n \div 10) \o SubSeq(Digits, (n % 10) + 1, (n % 10) + 1)

\* str(v) of a cell.
PyStr(v) ==
    CASE v.t = "str" -> v.s
      [] v.t = "null" -> "None"
      [] v.t = "int" -> IF v.n < 0 THEN "-" \o NatStr(0 - v.n) ELSE NatStr(v.n)
      [] v.t = "float64" ->
            LET h == Abs(v.n)
                cents == h % 100
            IN  (IF v.n < 0 THEN "-" ELSE "") \o NatStr(h \div 100) \o "."
                    \o (IF cents % 10 = 0 THEN NatStr(cents \div 10)
                        ELSE NatStr(cents \div 10) \o NatStr(cents % 10))
      [] v.t = "bool" -> IF v.n = 1 THEN "True" ELSE "False"
      [] OTHER -> "[...]"

\* [r for r in rows if label in str(r.get(col, ''))]
Labelled(rows, col, label) ==
    SelectSeq(rows, LAMBDA r : StrIn(label, PyStr(RowGet(r, col, JStr("")))))

\* a + b of two numbers.
Add(a, b) ==
    IF a.t = "int" /\ b.t = "int" THEN JInt(a.n + b.n) ELSE Float64(Scaled(a) + Scaled(b))

\* sum(r.get(col, 0) for r in rows): adding None to a number raises TypeError.
RECURSIVE SumCol(_, _)
SumCol(rows, col) ==
    IF rows = <<>> THEN Ret(JInt(0))
    ELSE LET v == RowGet(rows[Len(rows)], col, JInt(0))
             rest == SumCol(SubSeq(rows, 1, Len(rows) - 1), col)
         IN  IF rest.raised # "" THEN rest
             ELSE IF ~IsNum(v) THEN Raise("TypeError")
             ELSE Ret(Add(rest.value, v))

\* len(set(r.get(col) for r in rows))
CountDistinct(rows, col) ==
    Cardinality({ RowGet(rows[i], col, None) : i \in 1..Len(rows) })

(***************************************************************************)
(* analyze_pricing_results                                                 *)
(*                                                                         *)
(* An output string is modelled by its f-string template and the values    *)
(* formatted into it: s a text value, a and b numbers (a mean or a ratio   *)
(* is carried as numerator a over denominator b; a sum of cells is in      *)
(* hundredths, a count is a plain number).  The running state of           *)
(* the try block is the three lists and the class of the exception that    *)
(* ended it, "" while none did.                                            *)
(***************************************************************************)
Msg(text, s, a, b) == [text |-> text, s |-> s, a |-> a, b |-> b]

NewLists == [insights |-> <<>>, recommendations |-> <<>>, alerts |-> <<>>, raised |-> ""]

Insight(st, m) == IF st.raised # "" THEN st ELSE [st EXCEPT !.insights = Append(@, m)]
Recommend(st, text) ==
    IF st.raised # "" THEN st ELSE [st EXCEPT !.recommendations = Append(@, Msg(text, "", 0, 0))]
Alert(st, m) == IF st.raised # "" THEN st ELSE [st EXCEPT !.alerts = Append(@, m)]
Throw(st, cls) == IF st.raised # "" THEN st ELSE [st EXCEPT !.raised = cls]

\* lines 608-640
AnalyzeCompetitorTracking(rows, st) ==
    LET strong_advantages == Labelled(rows, "competitive_position", "[money] Strong Price Advantage")
        price_disadvantages == Labelled(rows, "competitive_position", "[red] Price Disadvantage")
        premium_positions == Labelled(rows, "value_proposition", "[gem] Premium Value Proposition")
        promo_pressure ==
            Labelled(rows, "promotional_environment", "[warning] Competitor Promotional Pressure")
        price_gaps == SelectSeq(rows, LAMBDA r : RowGet(r, "price_gap_pct", None) # None)
        gap_sum == SumCol(price_gaps, "price_gap_pct")
        s1 == IF strong_advantages # <<>>
              THEN Insight(st, Msg("[money] {n} kategoride g7ql7 fiyat avantaj1m1z var", "",
                                   Len(strong_advantages), 0))
              ELSE st
        s2 == IF price_disadvantages # <<>>
              THEN Recommend(
                     Alert(s1, Msg("[red] {n} kategoride fiyat dezavantaj1m1z bulunuyor", "",
                                   Len(price_disadvantages), 0)),
                     "Fiyat dezavantaj1 olan kategorilerde strateji revizyonu yap1n")
              ELSE s1
        s3 == IF premium_positions # <<>>
              THEN Insight(s2, Msg("[gem] {n} kategoride premium de9er 8nerisi sunuyoruz", "",
                                   Len(premium_positions), 0))
              ELSE s2
        s4 == IF promo_pressure # <<>>
              THEN Recommend(
                     Alert(s3, Msg("[warning] {n} kategoride rakip promosyon bask1s1 var", "",
                                   Len(promo_pressure), 0)),
                     "Rakip promosyonlar1na kar51 h1zl1 response stratejileri geli5tirin")
              ELSE s3
        n == Len(price_gaps)
    IN  IF price_gaps = <<>> THEN s4
        ELSE IF gap_sum.raised # "" THEN Throw(s4, gap_sum.raised)
        ELSE IF Scaled(gap_sum.value) < -10 * 100 * n
             THEN Insight(s4, Msg("[chart] Ortalama fiyat avantaj1m1z: %{avg} rakiplerden d757k", "",
                                  Abs(Scaled(gap_sum.value)), n))
        ELSE IF Scaled(gap_sum.value) > 10 * 100 * n
             THEN Insight(s4, Msg("[chart] Ortalama fiyat dezavantaj1m1z: %{avg} rakiplerden y7ksek",
                                  "", Scaled(gap_sum.value), n))
        ELSE Insight(s4, Msg("[scales] Rakiplerle ortalama fiyat paritesi: %{avg}", "",
                             Scaled(gap_sum.value), n))

\* max(rows, key=lambda x: x.get('roi_pct', 0)): the first row with the largest key;
\* with two rows or more the keys are compared, and a None key raises TypeError.
MaxByRoi(rows) ==
    LET key(i) == RowGet(rows[i], "roi_pct", JInt(0))
    IN  IF Len(rows) > 1 /\ \E i \in 1..Len(rows) : ~IsNum(key(i)) THEN Raise("TypeError")
        ELSE IF Len(rows) = 1 THEN Ret(1)
        ELSE Ret(CHOOSE i \in 1..Len(rows) :
                    /\ \A j \in 1..Len(rows) : Scaled(key(j)) <= Scaled(key(i))
                    /\ \A j \in 1..(i - 1) : Scaled(key(j)) < Scaled(key(i)))

\* lines 642-670
AnalyzeCampaignPerformance(rows, st) ==
    LET excellent_roi ==
            Labelled(rows, "campaign_performance_tier", "[trophy] Excellent Campaign ROI")
        poor_performance ==
            Labelled(rows, "campaign_performance_tier", "[down] Poor Campaign Performance")
        efficient_acquisition ==
            Labelled(rows, "acquisition_effectiveness", "[target] Efficient Customer Acquisition")
        excellent_retention ==
            Labelled(rows, "retention_performance", "[repeat] Excellent Customer Retention")
        top == MaxByRoi(excellent_roi)
        s1 == IF excellent_roi = <<>> THEN st
              ELSE IF top.raised # "" THEN Throw(st, top.raised)
              ELSE LET top_campaign == excellent_roi[top.value]
                   IN  IF {"campaign_name", "roi_pct"} \subseteq DOMAIN top_campaign
                       THEN Insight(st, Msg("[trophy] En ba5ar1l1 kampanya: {name} (ROI: %{roi})",
                                            PyStr(top_campaign.campaign_name) \o "|"
                                                \o PyStr(top_campaign.roi_pct), 0, 0))
                       ELSE Throw(st, "KeyError")
        s2 == IF poor_performance # <<>>
              THEN Recommend(
                     Alert(s1, Msg("[down] {n} kampanya d757k performans g8steriyor", "",
                                   Len(poor_performance), 0)),
                     "D757k ROI'li kampanya tiplerini analiz edin ve optimize edin")
              ELSE s1
        s3 == IF efficient_acquisition # <<>>
              THEN Insight(s2, Msg("[target] {n} kampanya verimli m75teri kazan1m1 sa9l1yor", "",
                                   Len(efficient_acquisition), 0))
              ELSE s2
        s4 == IF excellent_retention # <<>>
              THEN Insight(s3, Msg("[repeat] {n} kampanya m7kemmel m75teri tutma oran1 g8steriyor",
                                   "", Len(excellent_retention), 0))
              ELSE s3
        total_revenue == SumCol(rows, "revenue_generated")
        total_cost == SumCol(rows, "campaign_cost")
    IN  IF total_revenue.raised # "" THEN Throw(s4, total_revenue.raised)
        ELSE IF total_cost.raised # "" THEN Throw(s4, total_cost.raised)
        ELSE IF Scaled(total_cost.value) > 0
             THEN Insight(s4, Msg("[chart] Toplam kampanya ROI: %{(revenue / cost - 1) * 100}", "",
                                  Scaled(total_revenue.value), Scaled(total_cost.value)))
        ELSE s4

\* lines 672-695
AnalyzePriceElasticity(rows, st) ==
    LET price_increase_opps ==
            Labelled(rows, "pricing_strategy", "[up] Strong Price Increase Opportunity")
        under_priced == Labelled(rows, "price_optimization_status", "[money] Under-priced Product")
        high_revenue_impact ==
            Labelled(rows, "revenue_opportunity_level", "[rocket] High Revenue Impact Potential")
        low_sensitivity == Labelled(rows, "sensitivity_classification", "[gem] Low Price Sensitivity")
        s1 == IF price_increase_opps # <<>>
              THEN Recommend(
                     Insight(st, Msg("[up] {n} kategoride g7ql7 fiyat art1r1m f1rsat1", "",
                                     Len(price_increase_opps), 0)),
                     "Fiyat art1r1m f1rsatlar1n1 de9erlendirin ve pilot testler yap1n")
              ELSE st
        s2 == IF under_priced # <<>>
              THEN Recommend(
                     Insight(s1, Msg("[money] {n} 7r7n kategori optimal fiyat1n alt1nda", "",
                                     Len(under_priced), 0)),
                     "Under-priced kategorilerde fiyat optimizasyonu yap1n")
              ELSE s1
        s3 == IF high_revenue_impact # <<>>
              THEN Recommend(
                     Insight(s2, Msg("[rocket] {n} kategori y7ksek gelir etkisi potansiyeli ta51yor",
                                     "", Len(high_revenue_impact), 0)),
                     "Y7ksek etki potansiyelli kategorilerde A/B testleri ba5lat1n")
              ELSE s2
    IN  IF low_sensitivity # <<>>
        THEN Recommend(
               Insight(s3, Msg("[gem] {n} kategori d757k fiyat hassasiyeti g8steriyor (premium f1rsat)",
                               "", Len(low_sensitivity), 0)),
               "D757k hassasiyetli kategorilerde premium pricing stratejileri de9erlendirin")
        ELSE s3

\* lines 697-729
AnalyzePromotionalCalendar(rows, st) ==
    LET high_impact_low_cost == Labelled(rows, "campaign_priority_tier", "[rocket] High Impact Low Cost")
        high_impact == Labelled(rows, "campaign_priority_tier", "[star] High Impact Campaign")
        competitive_battlegrounds ==
            Labelled(rows, "competitive_intensity", "[swords] Competitive Battleground")
        total_budget == SumCol(rows, "budget_usd")
        major_investments == Labelled(rows, "budget_scale", "[money] Major Campaign Investment")
        flash_campaigns == Labelled(rows, "duration_strategy", "[rocket] Flash Campaign")
        extended_campaigns == Labelled(rows, "duration_strategy", "[calendar] Extended Campaign Period")
        s1 == IF high_impact_low_cost # <<>>
              THEN Recommend(
                     Insight(st, Msg("[rocket] {n} kampanya y7ksek etki d757k maliyet kategorisinde",
                                     "", Len(high_impact_low_cost), 0)),
                     "High impact low cost kampanyalar1 8ncelikle execute edin")
              ELSE st
        s2 == Insight(s1, Msg("[star] Toplam {n} y7ksek etkili kampanya planland1", "",
                              Len(high_impact \o high_impact_low_cost), 0))
        s3 == IF competitive_battlegrounds # <<>>
              THEN Recommend(
                     Alert(s2, Msg("[swords] {n} kampanya yo9un rekabetli ortamda", "",
                                   Len(competitive_battlegrounds), 0)),
                     "Yo9un rekabetli kampanyalar i6in diferansiyasyon stratejileri geli5tirin")
              ELSE s2
        s4 == IF total_budget.raised # "" THEN Throw(s3, total_budget.raised)
              ELSE Insight(s3, Msg("[money] Toplam planlanan kampanya b7t6esi: ${total}", "",
                                   Scaled(total_budget.value), 0))
        s5 == IF major_investments # <<>>
              THEN Insight(s4, Msg("[money] {n} major investment kampanyas1 planland1", "",
                                   Len(major_investments), 0))
              ELSE s4
        s6 == IF flash_campaigns # <<>>
              THEN Insight(s5, Msg("[rocket] {n} flash kampanya planland1", "", Len(flash_campaigns), 0))
              ELSE s5
    IN  IF extended_campaigns # <<>>
        THEN Insight(s6, Msg("[calendar] {n} uzun d8nemli kampanya planland1", "",
                             Len(extended_campaigns), 0))
        ELSE s6

\* xs[n:] in place of xs[:n].
DropFirst(xs, n) == SubSeq(xs, n + 1, Len(xs))

\* xs[:n]
Prefix(xs, n) == SubSeq(xs, 1, Min(Len(xs), n))

\* The try block of lines 607-732: the branch of the query type, none for any other value.
AnalysisRules(rows, query_type) ==
    CASE query_type = JStr("competitor_tracking") -> AnalyzeCompetitorTracking(rows, NewLists)
      [] query_type = JStr("campaign_performance") -> AnalyzeCampaignPerformance(rows, NewLists)
      [] query_type = JStr("price_elasticity") -> AnalyzePriceElasticity(rows, NewLists)
      [] query_type = JStr("promotional_calendar") -> AnalyzePromotionalCalendar(rows, NewLists)
      [] OTHER -> NewLists

\* analyze_pricing_results that returns three empty lists for no rows.
AnalyzeNoFallback(rows, query_type) ==
    LET st == AnalysisRules(rows, query_type)
    IN  [insights |-> Prefix(st.insights, 10),
         recommendations |-> Prefix(st.recommendations, 5),
         alerts |-> Prefix(st.alerts, 5)]

analyze_pricing_results(rows, query_type) ==
    IF rows = <<>>
    THEN [insights |-> <<Msg("Belirtilen kriterlere uygun pricing verisi bulunamad1", "", 0, 0)>>,
          recommendations |-> <<Msg("Tarih aral191n1 veya kriterleri geni5letin", "", 0, 0)>>,
          alerts |-> <<>>]
    ELSE LET st == AnalysisRules(rows, query_type)
         IN  [insights |-> Prefix(st.insights, 10),
              recommendations |-> Prefix(st.recommendations, 5),
              alerts |-> Prefix(st.alerts, 5)]

(***************************************************************************)
(* calculate_pricing_summary                                               *)
(*                                                                         *)
(* The summary dict is a function from its keys to values.  A total is in  *)
(* hundredths and a mean is carried as [num, den], num in hundredths; the  *)
(* timestamp is the clock reading UtcNow.                                  *)
(***************************************************************************)
UtcNow == JStr("utcnow")

\* total // n in place of total / n.
MeanFloorDiv(total, n) == [num |-> total \div n, den |-> 1]

Mean(total, n) == [num |-> total, den |-> n]

\* The update of the try block (lines 752-783), or the exception class it raised.
SummaryUpdate(rows, query_type) ==
    CASE query_type = JStr("competitor_tracking") ->
            LET total == SumCol(rows, "price_gap_pct")
            IN  IF total.raised # "" THEN Raise(total.raised)
                ELSE Ret([unique_competitors |-> CountDistinct(rows, "competitor"),
                          unique_markets |-> CountDistinct(rows, "market"),
                          avg_price_gap |-> Mean(Scaled(total.value), Len(rows)),
                          competitive_advantages |->
                              Cardinality({ i \in 1..Len(rows) :
                                  Le(RowGet(rows[i], "price_gap_pct", JInt(0)), -15) })])
      [] query_type = JStr("campaign_performance") ->
            LET revenue == SumCol(rows, "revenue_generated")
                cost == SumCol(rows, "campaign_cost")
                roi == SumCol(rows, "roi_pct")
            IN  IF revenue.raised # "" THEN Raise(revenue.raised)
                ELSE IF cost.raised # "" THEN Raise(cost.raised)
                ELSE IF roi.raised # "" THEN Raise(roi.raised)
                ELSE Ret([unique_campaigns |-> CountDistinct(rows, "campaign_name"),
                          total_revenue |-> Scaled(revenue.value),
                          total_cost |-> Scaled(cost.value),
                          avg_roi |-> Mean(Scaled(roi.value), Len(rows))])
      [] query_type = JStr("price_elasticity") ->
            LET total == SumCol(rows, "elasticity_coefficient")
            IN  IF total.raised # "" THEN Raise(total.raised)
                ELSE Ret([price_points_analyzed |-> Len(rows),
                          unique_markets |-> CountDistinct(rows, "market"),
                          avg_elasticity |-> Mean(Scaled(total.value), Len(rows)),
                          price_increase_opportunities |->
                              Cardinality({ i \in 1..Len(rows) :
                                  RowGet(rows[i], "recommendation", None) = JStr("Increase Price") })])
      [] query_type = JStr("promotional_calendar") ->
            LET budget == SumCol(rows, "budget_usd")
                uplift == SumCol(rows, "expected_uplift_pct")
            IN  IF budget.raised # "" THEN Raise(budget.raised)
                ELSE IF uplift.raised # "" THEN Raise(uplift.raised)
                ELSE Ret([planned_campaigns |-> Len(rows),
                          total_budget |-> Scaled(budget.value),
                          avg_expected_uplift |-> Mean(Scaled(uplift.value), Len(rows)),
                          unique_markets |-> CountDistinct(rows, "target_market")])
      [] OTHER -> Ret(<<>>)

\* calculate_pricing_summary without the early return of lines 743-744.
SummaryWithoutEarlyReturn(rows, query_type) ==
    LET summary == [total_records |-> Len(rows), query_type |-> query_type,
                    timestamp |-> UtcNow]
        update == SummaryUpdate(rows, query_type)
    IN  IF update.raised # "" THEN summary ELSE update.value @@ summary

\* calculate_pricing_summary whose except branch keeps the record count only.
SummaryCountOnlyOnError(rows, query_type) ==
    IF rows = <<>> THEN [total_records |-> 0]
    ELSE LET update == SummaryUpdate(rows, query_type)
         IN  IF update.raised # "" THEN [total_records |-> Len(rows)]
             ELSE update.value @@ [total_records |-> Len(rows), query_type |-> query_type,
                                   timestamp |-> UtcNow]

\* calculate_pricing_summary that stores the category fields one at a time, so
\* that the fields stored before an exception stay in the summary.
SummaryFieldByField(rows, query_type) ==
    IF rows = <<>> THEN [total_records |-> 0]
    ELSE LET summary == [total_records |-> Len(rows), query_type |-> query_type,
                         timestamp |-> UtcNow]
             update == SummaryUpdate(rows, query_type)
         IN  IF update.raised = "" THEN update.value @@ summary
             ELSE IF query_type = JStr("competitor_tracking")
             THEN [unique_competitors |-> CountDistinct(rows, "competitor"),
                   unique_markets |-> CountDistinct(rows, "market")] @@ summary
             ELSE summary

calculate_pricing_summary(rows, query_type) ==
    IF rows = <<>> THEN [total_records |-> 0]
    ELSE LET summary == [total_records |-> Len(rows), query_type |-> query_type,
                         timestamp |-> UtcNow]
             update == SummaryUpdate(rows, query_type)
         IN  IF update.raised # "" THEN summary ELSE update.value @@ summary

(***************************************************************************)
(* The query builders.  The SQL text is modelled by the table it reads and *)
(* the parameter its LIMIT clause names; params is the parameter list.     *)
(***************************************************************************)
QueryParameter(name, type, value) == [name |-> name, type |-> type, value |-> value]

sql_competitor_tracking ==
    [sql |-> [table |-> "competitor_tracking", limit |-> "limit"],
     params |-> <<QueryParameter("limit", "INT64", None)>>]

sql_campaign_performance ==
    [sql |-> [table |-> "campaign_performance", limit |-> "limit"],
     params |-> <<QueryParameter("limit", "INT64", None)>>]

sql_price_elasticity ==
    [sql |-> [table |-> "price_elasticity", limit |-> "limit"],
     params |-> <<QueryParameter("limit", "INT64", None)>>]

sql_promotional_calendar ==
    [sql |-> [table |-> "promotional_calendar", limit |-> "limit"],
     params |-> <<QueryParameter("limit", "INT64", None)>>]

\* The query_functions dict with one alias entered under the wrong builder.
query_functions_misaliased ==
    [competitor_tracking |-> sql_competitor_tracking,
     competitor_analysis |-> sql_competitor_tracking,
     campaign_performance |-> sql_campaign_performance,
     campaign_analysis |-> sql_competitor_tracking,
     price_elasticity |-> sql_price_elasticity,
     price_optimization |-> sql_price_elasticity,
     promotional_calendar |-> sql_promotional_calendar,
     promotional_planning |-> sql_promotional_calendar]

\* The query_functions dict (lines 810-819).
query_functions ==
    [competitor_tracking |-> sql_competitor_tracking,
     competitor_analysis |-> sql_competitor_tracking,
     campaign_performance |-> sql_campaign_performance,
     campaign_analysis |-> sql_campaign_performance,
     price_elasticity |-> sql_price_elasticity,
     price_optimization |-> sql_price_elasticity,
     promotional_calendar |-> sql_promotional_calendar,
     promotional_planning |-> sql_promotional_calendar]

\* query_functions.get(query_type, sql_competitor_tracking)(): a list or an object
\* is not hashable, and looking it up raises TypeError.
SelectQuery(query_type) ==
    IF query_type.t \in {"list", "object"} THEN Raise("TypeError")
    ELSE IF query_type.t = "str" /\ query_type.s \in DOMAIN query_functions
         THEN Ret(query_functions[query_type.s])
    ELSE Ret(sql_competitor_tracking)

\* lines 826-831
FillParams(params, limit) ==
    [i \in 1..Len(params) |->
        IF params[i].name = "limit" THEN QueryParameter("limit", "INT64", limit) ELSE params[i]]

\* Line 805 with a lower clamp added: max(0, min(int(requested), 500)).
EffectiveLimitFloored(requested) ==
    LET n == IntOf(requested)
    IN  IF n.raised # "" THEN n
        ELSE Ret(JInt(IF n.value.n < 0 THEN 0 ELSE Min(n.value.n, 500)))

\* line 805, given body.get("limit", 100)
EffectiveLimit(requested) ==
    LET n == IntOf(requested)
    IN  IF n.raised # "" THEN n ELSE Ret(JInt(Min(n.value.n, 500)))

(***************************************************************************)
(* The warehouse (bigquery.Client): what client.query(...).result() can    *)
(* do.  It raises, or returns rows of the table the SQL reads, at most     *)
(* @limit of them (LIMIT @limit); a LIMIT that is NULL or negative is      *)
(* rejected.  The order of the rows is left open.                          *)
(***************************************************************************)
MaxRows == 2

WarehouseErrors == {"BadRequest", "ServiceUnavailable"}

CompetitorSamples ==
    { CompetitorRow([competitor |-> JStr("Zara"), market |-> JStr("Turkey"),
                     price_gap_pct |-> JInt(-20), promotion_flag |-> JStr("FALSE"),
                     quality_comparison |-> JStr("Superior"),
                     market_share_impact |-> JStr("Positive")]),
      CompetitorRow([competitor |-> JStr("Boss"), market |-> JStr("Germany"),
                     price_gap_pct |-> JInt(20), promotion_flag |-> JStr("TRUE"),
                     quality_comparison |-> JStr("Comparable"),
                     market_share_impact |-> JStr("Negative")]),
      CompetitorRow([competitor |-> JStr("Zara"), market |-> JStr("Russia"),
                     price_gap_pct |-> None, promotion_flag |-> JStr("FALSE"),
                     quality_comparison |-> JStr("Inferior"),
                     market_share_impact |-> JStr("Neutral")]) }

CampaignSamples ==
    { CampaignRow([campaign_name |-> JStr("Winter"), revenue_generated |-> JInt(700),
                   campaign_cost |-> JInt(100), roi_pct |-> JInt(600),
                   customer_acquisition |-> JInt(120), repeat_purchase_rate |-> JInt(65),
                   segment_cost_per_acquisition |-> JInt(40)]),
      CampaignRow([campaign_name |-> JStr("Flash"), revenue_generated |-> JInt(200),
                   campaign_cost |-> JInt(100), roi_pct |-> JInt(100),
                   customer_acquisition |-> JInt(10), repeat_purchase_rate |-> JInt(10),
                   segment_cost_per_acquisition |-> JInt(90)]),
      CampaignRow([campaign_name |-> JStr("Gift"), revenue_generated |-> None,
                   campaign_cost |-> JInt(50), roi_pct |-> JInt(550),
                   customer_acquisition |-> JInt(60), repeat_purchase_rate |-> JInt(30),
                   segment_cost_per_acquisition |-> None]) }

ElasticitySamples ==
    { ElasticityRow([market |-> JStr("Turkey"), price_point_usd |-> JInt(100),
                     elasticity_coefficient |-> JInt(0), optimal_price_usd |-> JInt(120),
                     revenue_impact_pct |-> JInt(20), recommendation |-> JStr("Increase Price")]),
      ElasticityRow([market |-> JStr("Germany"), price_point_usd |-> JInt(100),
                     elasticity_coefficient |-> JInt(3), optimal_price_usd |-> JInt(100),
                     revenue_impact_pct |-> JInt(0), recommendation |-> JStr("Maintain Price")]),
      ElasticityRow([market |-> JStr("Russia"), price_point_usd |-> JInt(100),
                     elasticity_coefficient |-> None, optimal_price_usd |-> JInt(80),
                     revenue_impact_pct |-> JInt(-12), recommendation |-> JStr("Decrease Price")]) }

PromotionalSamples ==
    { PromotionalRow([target_market |-> JStr("Turkey"), expected_uplift_pct |-> JInt(45),
                      budget_usd |-> JInt(10000), competitive_response |-> JStr("High"),
                      campaign_duration_days |-> JInt(3)]),
      PromotionalRow([target_market |-> JStr("Germany"), expected_uplift_pct |-> JInt(10),
                      budget_usd |-> JInt(60000), competitive_response |-> JStr("Low"),
                      campaign_duration_days |-> JInt(40)]),
      PromotionalRow([target_market |-> JStr("Russia"), expected_uplift_pct |-> JInt(42),
                      budget_usd |-> None, competitive_response |-> JStr("Medium"),
                      campaign_duration_days |-> JInt(10)]) }

TableRows(table) ==
    CASE table = "competitor_tracking" -> CompetitorSamples
      [] table = "campaign_performance" -> CampaignSamples
      [] table = "price_elasticity" -> ElasticitySamples
      [] table = "promotional_calendar" -> PromotionalSamples

\* All sequences of at most n elements of S.
SeqsUpTo(S, n) == UNION { [1..k -> S] : k \in 0..n }

\* The value of the parameter the LIMIT clause names, None if the list has none.
LimitParam(sql, params) ==
    IF \E i \in 1..Len(params) : params[i].name = sql.limit
    THEN params[CHOOSE i \in 1..Len(params) : params[i].name = sql.limit].value
    ELSE None

\* The row lists a successful run of the query can return.
ResultSets(sql, params) ==
    LET lim == LimitParam(sql, params)
    IN  IF lim.t # "int" \/ lim.n < 0 THEN {}
        ELSE SeqsUpTo(TableRows(sql.table), Min(MaxRows, lim.n))

(***************************************************************************)
(* pricing_intel_query                                                     *)
(*                                                                         *)
(* A request is what get_json(silent=True) yields: json, the JSON value    *)
(* (None for a body that is not JSON), and for an object its three keys,   *)
(* each a JSON value or Absent.                                            *)
(***************************************************************************)
Absent == [t |-> "absent", s |-> "", n |-> 0]

NoResponse == [status |-> 0]

EmptyBody == [json |-> JObj(0), question |-> Absent, query_type |-> Absent, limit |-> Absent]

\* body.get(key, default)
BodyGet(body, key, default) == IF body[key] = Absent THEN default ELSE body[key]

\* name = value
Assign(l, name, value) == (name :> value) @@ l

\* The query type of line 804 resolved by classifying the question whenever the
\* request's value is not a key of query_functions.
ResolveByClassifying(body, question) ==
    LET given == BodyGet(body, "query_type", None)
    IN  IF given.t = "str" /\ given.s \in DOMAIN query_functions THEN Ret(given)
        ELSE detect_query_intent(question)

\* line 804: body.get("query_type") or detect_query_intent(question)
ResolveQueryType(body, question) ==
    LET given == BodyGet(body, "query_type", None)
    IN  IF Truthy(given) THEN Ret(given) ELSE detect_query_intent(question)

\* The error envelope with query_type always "unknown".
ErrorUnknown(l, cls) ==
    [status |-> 500, success |-> FALSE, error_type |-> cls, agent |-> "pricing_intel",
     query_type |-> JStr("unknown")]

\* lines 875-882
ErrorResponse(l, cls) ==
    [status |-> 500, success |-> FALSE, error_type |-> cls, agent |-> "pricing_intel",
     query_type |-> IF "query_type" \in DOMAIN l THEN l.query_type ELSE JStr("unknown")]

\* lines 849-871
SuccessResponse(l) ==
    [status |-> 200, success |-> TRUE, agent |-> "pricing_intel",
     query_type |-> l.query_type, parameters |-> [limit |-> l.limit],
     summary |-> l.summary, insights |-> l.analysis.insights,
     recommendations |-> l.analysis.recommendations, alerts |-> l.analysis.alerts,
     row_count |-> Len(l.rows), rows |-> l.rows]

\* A statement returned: go on to the next one.
Goto(next) == pc' = next /\ UNCHANGED exc
\* A statement raised: control passes to the except clause of line 873.
Raised(cls) == pc' = "except" /\ exc' = cls

Receive(req) ==
    /\ pc = "idle"
    /\ request' = req
    /\ pc' = "get_json"
    /\ UNCHANGED <<locals, exc, jobs, response>>

\* line 800
GetJson ==
    /\ pc = "get_json"
    /\ locals' = Assign(locals, "body", IF Truthy(request.json) THEN request ELSE EmptyBody)
    /\ Goto("question")
    /\ UNCHANGED <<request, jobs, response>>

\* line 803: only a dict has .get
GetQuestion ==
    /\ pc = "question"
    /\ IF locals.body.json.t # "object"
       THEN Raised("AttributeError") /\ UNCHANGED locals
       ELSE /\ locals' = Assign(locals, "question", BodyGet(locals.body, "question", JStr("")))
            /\ Goto("query_type")
    /\ UNCHANGED <<request, jobs, response>>

\* line 804
GetQueryType ==
    /\ pc = "query_type"
    /\ LET r == ResolveQueryType(locals.body, locals.question)
       IN  IF r.raised # ""
           THEN Raised(r.raised) /\ UNCHANGED locals
           ELSE locals' = Assign(locals, "query_type", r.value) /\ Goto("limit")
    /\ UNCHANGED <<request, jobs, response>>

\* line 805
GetLimit ==
    /\ pc = "limit"
    /\ LET r == EffectiveLimit(BodyGet(locals.body, "limit", JInt(100)))
       IN  IF r.raised # ""
           THEN Raised(r.raised) /\ UNCHANGED locals
           ELSE locals' = Assign(locals, "limit", r.value) /\ Goto("select")
    /\ UNCHANGED <<request, jobs, response>>

\* lines 810-823
GetQuery ==
    /\ pc = "select"
    /\ LET r == SelectQuery(locals.query_type)
       IN  IF r.raised # ""
           THEN Raised(r.raised) /\ UNCHANGED locals
           ELSE /\ locals' = Assign(Assign(locals, "sql", r.value.sql), "params", r.value.params)
                /\ Goto("fill")
    /\ UNCHANGED <<request, jobs, response>>

\* lines 826-831
FillParameters ==
    /\ pc = "fill"
    /\ locals' = Assign(locals, "filled_params", FillParams(locals.params, locals.limit))
    /\ Goto("execute")
    /\ UNCHANGED <<request, jobs, response>>

\* The job handed to the warehouse (lines 835-841).
Job(l) ==
    [sql |-> l.sql, query_parameters |-> l.filled_params,
     labels |-> [agent |-> "pricing_intel", query_type |-> l.query_type]]

\* lines 834-842 with the query run again when it fails.
ExecuteQueryRetrying ==
    /\ pc = "execute"
    /\ jobs' = Append(jobs, Job(locals))
    /\ \/ /\ Len(jobs) < 1
          /\ pc' = "execute" /\ UNCHANGED <<exc, locals>>
       \/ \E cls \in WarehouseErrors : Raised(cls) /\ UNCHANGED locals
       \/ \E rows \in ResultSets(locals.sql, locals.filled_params) :
             /\ locals' = Assign(locals, "rows", rows)
             /\ Goto("analyze")
    /\ UNCHANGED <<request, response>>

\* lines 834-842: the query runs and its rows are read, or the call raises.
ExecuteQuery ==
    /\ pc = "execute"
    /\ jobs' = Append(jobs, Job(locals))
    /\ \/ \E cls \in WarehouseErrors : Raised(cls) /\ UNCHANGED locals
       \/ \E rows \in ResultSets(locals.sql, locals.filled_params) :
             /\ locals' = Assign(locals, "rows", rows)
             /\ Goto("analyze")
    /\ UNCHANGED <<request, response>>

\* Line 845 with the exception of a rule let through to the handler.
AnalyzeUncaught ==
    /\ pc = "analyze"
    /\ LET st == AnalysisRules(locals.rows, locals.query_type)
       IN  IF locals.rows # <<>> /\ st.raised # ""
           THEN Raised(st.raised) /\ UNCHANGED locals
           ELSE /\ locals' = Assign(locals, "analysis",
                                    analyze_pricing_results(locals.rows, locals.query_type))
                /\ Goto("summarize")
    /\ UNCHANGED <<request, jobs, response>>

\* line 845
Analyze ==
    /\ pc = "analyze"
    /\ locals' = Assign(locals, "analysis", analyze_pricing_results(locals.rows, locals.query_type))
    /\ Goto("summarize")
    /\ UNCHANGED <<request, jobs, response>>

\* line 846
Summarize ==
    /\ pc = "summarize"
    /\ locals' = Assign(locals, "summary", calculate_pricing_summary(locals.rows, locals.query_type))
    /\ Goto("respond")
    /\ UNCHANGED <<request, jobs, response>>

\* lines 849-871
Respond ==
    /\ pc = "respond"
    /\ response' = SuccessResponse(locals)
    /\ pc' = "done"
    /\ UNCHANGED <<request, locals, exc, jobs>>

\* lines 873-882
HandleException ==
    /\ pc = "except"
    /\ response' = ErrorResponse(locals, exc)
    /\ pc' = "done"
    /\ UNCHANGED <<request, locals, exc, jobs>>

(***************************************************************************)
(* The handler serving one request drawn from Requests.                    *)
(***************************************************************************)
HandlerQuestions ==
    {Absent, None, JStr(""), JStr("campaign roi"), JStr("Budget plan"), JInt(5)}

HandlerQueryTypes ==
    {Absent, None, JStr(""), JStr("foo"), JInt(5), JList(0), JList(1), JObj(1)}
        \cup { JStr(alias) : alias \in DOMAIN query_functions }

HandlerLimits ==
    {Absent, None, JInt(-5), JInt(0), JInt(1), JInt(500), JInt(501), JInt(10000),
     JFloat(5015), JFloat(-25), JStr("42"), JStr("abc"), JBool(TRUE), JList(1)}

\* The number of keys of an object body.
KeyCount(q, qt, lim) ==
    (IF q = Absent THEN 0 ELSE 1) + (IF qt = Absent THEN 0 ELSE 1) + (IF lim = Absent THEN 0 ELSE 1)

Requests ==
    { [json |-> JObj(KeyCount(q, qt, lim)), question |-> q, query_type |-> qt, limit |-> lim] :
        q \in HandlerQuestions, qt \in HandlerQueryTypes, lim \in HandlerLimits }
    \cup { [json |-> j, question |-> Absent, query_type |-> Absent, limit |-> Absent] :
             j \in {None, JList(0), JList(1), JStr("hello"), JInt(7)} }

\* Nothing was received yet.
HandlerIdle ==
    /\ pc = "idle"
    /\ request = EmptyBody
    /\ locals = <<>>
    /\ exc = ""
    /\ jobs = <<>>
    /\ response = NoResponse

\* The parts of the state the handler does not touch.
IntentIdle == iq = None /\ ires = NoCall
AnalysisIdle == arows = <<>> /\ aquery_type = None /\ aresult = NoCall /\ sresult = NoCall
QueryIdle == qtable = [name |-> "", rows |-> <<>>] /\ qresult = NoCall

Init == HandlerIdle /\ IntentIdle /\ AnalysisIdle /\ QueryIdle

Next ==
    \/ \E req \in Requests : Receive(req) /\ UNCHANGED <<ivars, avars, qvars>>
    \/ GetJson /\ UNCHANGED <<ivars, avars, qvars>>
    \/ GetQuestion /\ UNCHANGED <<ivars, avars, qvars>>
    \/ GetQueryType /\ UNCHANGED <<ivars, avars, qvars>>
    \/ GetLimit /\ UNCHANGED <<ivars, avars, qvars>>
    \/ GetQuery /\ UNCHANGED <<ivars, avars, qvars>>
    \/ FillParameters /\ UNCHANGED <<ivars, avars, qvars>>
    \/ ExecuteQuery /\ UNCHANGED <<ivars, avars, qvars>>
    \/ Analyze /\ UNCHANGED <<ivars, avars, qvars>>
    \/ Summarize /\ UNCHANGED <<ivars, avars, qvars>>
    \/ Respond /\ UNCHANGED <<ivars, avars, qvars>>
    \/ HandleException /\ UNCHANGED <<ivars, avars, qvars>>

Spec == Init /\ [][Next]_vars

(***************************************************************************)
(* The classifier on its own: one call per behaviour, on a question drawn  *)
(* from IntentQuestions.                                                   *)
(***************************************************************************)
MaxWords == 2

\* Every keyword of the table.
AllTerms ==
    UNION { UNION { { SplitBar(patterns[i].pattern_list[j])[k] :
                        k \in 1..Len(SplitBar(patterns[i].pattern_list[j])) } :
                    j \in 1..Len(patterns[i].pattern_list) } :
            i \in 1..Len(patterns) }

Words == {"price", "Campaign", "ROI", "elasticity", "budget", "kar", "marketing",
          "Optimal", "takvim", "hello", "x"}

RECURSIVE Phrases(_)
Phrases(n) ==
    IF n <= 1 THEN Words
    ELSE Phrases(n - 1) \cup { p \o " " \o w : p \in Phrases(n - 1), w \in Words }

IntentQuestions ==
    {None, JStr(""), JInt(5), JInt(0), JList(1)}
        \cup { JStr(t) : t \in AllTerms }
        \cup { JStr(p) : p \in Phrases(MaxWords) }

InitIntent ==
    /\ iq \in IntentQuestions
    /\ ires = NoCall
    /\ HandlerIdle
    /\ AnalysisIdle
    /\ QueryIdle

Classify ==
    /\ ires = NoCall
    /\ ires' = detect_query_intent(iq)
    /\ UNCHANGED <<iq, hvars, avars, qvars>>

NextIntent == Classify

SpecIntent == InitIntent /\ [][NextIntent]_vars

(***************************************************************************)
(* analyze_pricing_results and calculate_pricing_summary on their own:     *)
(* one call of each per behaviour, on rows and a query type drawn from     *)
(* the sets below.                                                         *)
(***************************************************************************)
\* Rows a query returns, and rows that lack a column the rules read.
AnalysisRows ==
    CompetitorSamples \cup CampaignSamples \cup ElasticitySamples \cup PromotionalSamples
        \cup { [roi_pct |-> JInt(700),
                campaign_performance_tier |-> JStr("[trophy] Excellent Campaign ROI")] }

AnalysisQueryTypes ==
    { JStr(alias) : alias \in DOMAIN query_functions } \cup {JStr("foo"), JStr(""), JInt(5), None}

InitAnalysis ==
    /\ arows \in SeqsUpTo(AnalysisRows, MaxRows)
    /\ aquery_type \in AnalysisQueryTypes
    /\ aresult = NoCall
    /\ sresult = NoCall
    /\ HandlerIdle
    /\ IntentIdle
    /\ QueryIdle

CallAnalyze ==
    /\ aresult = NoCall
    /\ aresult' = Ret(analyze_pricing_results(arows, aquery_type))
    /\ UNCHANGED <<arows, aquery_type, sresult, hvars, ivars, qvars>>

CallSummary ==
    /\ sresult = NoCall
    /\ sresult' = Ret(calculate_pricing_summary(arows, aquery_type))
    /\ UNCHANGED <<arows, aquery_type, aresult, hvars, ivars, qvars>>

NextAnalysis == CallAnalyze \/ CallSummary

SpecAnalysis == InitAnalysis /\ [][NextAnalysis]_vars

(***************************************************************************)
(* The competitor and the campaign query on their own: one run of the      *)
(* query per behaviour, on a table drawn from the sets below.  The rows    *)
(* of a table are those its date filter keeps; the result is given in the  *)
(* order of the table (ORDER BY is left out) and LIMIT is not applied.     *)
(***************************************************************************)
MaxTableRows == 2

\* The market_position CTE: the counters of the (market, product_category) group.
market_position(table, market, product_category) ==
    LET group == { i \in 1..Len(table) : /\ table[i].market = market
                                         /\ table[i].product_category = product_category }
    IN  [price_advantages |->
             Cardinality({ i \in group : Le(table[i].price_gap_pct, PRICE_ADVANTAGE_THRESHOLD) }),
         price_disadvantages |->
             Cardinality({ i \in group : Ge(table[i].price_gap_pct, PRICE_DISADVANTAGE_THRESHOLD) })]

\* The rows sql_competitor_tracking's query returns: each row of the table joined
\* with the counters of its group.
CompetitorQuery(table) ==
    [i \in 1..Len(table) |->
        LET mp == market_position(table, table[i].market, table[i].product_category)
        IN  [product_category |-> table[i].product_category,
             price_advantages |-> JInt(mp.price_advantages),
             price_disadvantages |-> JInt(mp.price_disadvantages)] @@ CompetitorRow(table[i])]

\* The rows sql_campaign_performance's query returns.
CampaignQuery(table) == [i \in 1..Len(table) |-> CampaignRow(table[i])]

CompetitorTable ==
    { [competitor |-> JStr("Zara"), market |-> JStr("Turkey"), product_category |-> JStr(pc_),
       price_gap_pct |-> gap, promotion_flag |-> JStr("FALSE"),
       quality_comparison |-> JStr("Comparable"), market_share_impact |-> JStr(impact)] :
         pc_ \in {"Suits", "Shirts"},
         gap \in { Float64(h) : h \in {-3100, -3000, -2996, -1500, 1000, 1200, 1600} } \cup {None},
         impact \in {"Very Positive", "Negative"} }

CampaignTable ==
    { [campaign_name |-> JStr("Winter"), revenue_generated |-> Float64(70000),
       campaign_cost |-> Float64(10000), roi_pct |-> roi, customer_acquisition |-> JInt(120),
       repeat_purchase_rate |-> Float64(6500), segment_cost_per_acquisition |-> Float64(4000)] :
         roi \in { Float64(h) : h \in {19996, 20000, 29996, 30000, 49996, 50000, 60000} }
                    \cup {None} }

InitQuery ==
    /\ qtable \in [name : {"competitor_tracking"}, rows : SeqsUpTo(CompetitorTable, MaxTableRows)]
                    \cup [name : {"campaign_performance"},
                          rows : SeqsUpTo(CampaignTable, MaxTableRows)]
    /\ qresult = NoCall
    /\ HandlerIdle
    /\ IntentIdle
    /\ AnalysisIdle

RunCompetitorTracking ==
    /\ qtable.name = "competitor_tracking"
    /\ qresult = NoCall
    /\ qresult' = Ret([rows |-> CompetitorQuery(qtable.rows)])
    /\ UNCHANGED <<qtable, hvars, ivars, avars>>

RunCampaignPerformance ==
    /\ qtable.name = "campaign_performance"
    /\ qresult = NoCall
    /\ qresult' = Ret([rows |-> CampaignQuery(qtable.rows)])
    /\ UNCHANGED <<qtable, hvars, ivars, avars>>

NextQuery == RunCompetitorTracking \/ RunCampaignPerformance

SpecQuery == InitQuery /\ [][NextQuery]_vars

----------------------------------------------------------------------------
CategoryOrder ==
    <<"competitor_tracking", "campaign_performance", "price_elasticity", "promotional_calendar">>

\* The keywords listed for a category.
TermsOf(c) ==
    LET e == CHOOSE e \in { patterns[i] : i \in 1..Len(patterns) } : e.intent = c
    IN  UNION { { SplitBar(e.pattern_list[j])[k] : k \in 1..Len(SplitBar(e.pattern_list[j])) } :
                j \in 1..Len(e.pattern_list) }

\* w occurs in q: q is some prefix, then w, then some suffix.
Occurs(w, q) ==
    \E a \in 0..Len(q) : \E b \in 0..Len(q) :
        /\ a + Len(w) + b = Len(q)
        /\ SubSeq(q, a + 1, a + Len(w)) = w

CategoryOccurs(c, q) == \E w \in TermsOf(c) : Occurs(w, q)

\* C9: for every question that is a string or None, detect_query_intent returns
\* without raising; it returns the first category of the fixed order one of whose
\* keywords occurs in the lower-cased question, and competitor_tracking when no
\* keyword of any category occurs (so for "" and None).
C9_IntentFirstMatch ==
    (ires # NoCall /\ iq.t \in {"str", "null"}) =>
        LET q == StrLower(iq.s)
        IN  /\ ires.raised = ""
            /\ ires.value.t = "str"
            /\ \/ \E n \in 1..Len(CategoryOrder) :
                      /\ CategoryOccurs(CategoryOrder[n], q)
                      /\ \A m \in 1..(n - 1) : ~CategoryOccurs(CategoryOrder[m], q)
                      /\ ires.value.s = CategoryOrder[n]
               \/ /\ \A n \in 1..Len(CategoryOrder) : ~CategoryOccurs(CategoryOrder[n], q)
                  /\ ires.value.s = "competitor_tracking"
            /\ (iq = None \/ iq = JStr("")) => ires.value.s = "competitor_tracking"

\* A question with keywords of two categories, in upper case, resolved to the earlier one.
C9_Witness ==
    /\ iq = JStr("budget Campaign")
    /\ ires = Ret(JStr("campaign_performance"))

----------------------------------------------------------------------------
\* The request's query_type as line 804 reads it, None when the key is absent.
Given == BodyGet(request, "query_type", None)

IsAlias(v) ==
    v.t = "str" /\ v.s \in {"competitor_tracking", "competitor_analysis",
                            "campaign_performance", "campaign_analysis",
                            "price_elasticity", "price_optimization",
                            "promotional_calendar", "promotional_planning"}

\* The table each category's builder reads.
BuilderTable(category) ==
    CASE category = "competitor_tracking" -> "competitor_tracking"
      [] category = "campaign_performance" -> "campaign_performance"
      [] category = "price_elasticity" -> "price_elasticity"
      [] category = "promotional_calendar" -> "promotional_calendar"

\* The category an alias stands for.
CategoryOf(alias) ==
    CASE alias \in {"competitor_tracking", "competitor_analysis"} -> "competitor_tracking"
      [] alias \in {"campaign_performance", "campaign_analysis"} -> "campaign_performance"
      [] alias \in {"price_elasticity", "price_optimization"} -> "price_elasticity"
      [] alias \in {"promotional_calendar", "promotional_planning"} -> "promotional_calendar"

\* The other alias of the same category.
Sibling(alias) ==
    CHOOSE other \in {"competitor_tracking", "competitor_analysis", "campaign_performance",
                      "campaign_analysis", "price_elasticity", "price_optimization",
                      "promotional_calendar", "promotional_planning"} :
        other # alias /\ CategoryOf(other) = CategoryOf(alias)

\* The request is a JSON object whose question the classifier accepts.
PlainRequest ==
    /\ request.json.t = "object"
    /\ request.question.t \in {"absent", "str", "null"}

\* The fields of a summary that belong to its category.
CategoryFields(summary) ==
    [k \in DOMAIN summary \ {"total_records", "query_type", "timestamp"} |-> summary[k]]

\* C1 as stated: when query_type is present but is not one of the 8 aliases, it is
\* ignored and the builder that runs is the one of detect_query_intent(question).
C1_UnrecognizedIsClassified ==
    (/\ PlainRequest
     /\ request.query_type.t = "str"
     /\ ~IsAlias(request.query_type)
     /\ "sql" \in DOMAIN locals) =>
        locals.sql.table = BuilderTable(detect_query_intent(locals.question).value.s)

\* C1 as amended: a query_type that is a non-empty string (or any other truthy
\* value) is kept as the request's query type and the question is not classified;
\* when it is not one of the 8 aliases the builder that runs is
\* sql_competitor_tracking, whatever the question.  The question is classified only
\* when query_type is absent or falsy (null, "", 0, false, [] or {}).
C1_UnrecognizedRunsDefaultBuilder ==
    "query_type" \in DOMAIN locals =>
        /\ Truthy(Given) => locals.query_type = Given
        /\ ~Truthy(Given) => locals.query_type = detect_query_intent(locals.question).value
        /\ (Truthy(Given) /\ ~IsAlias(Given) /\ "sql" \in DOMAIN locals) =>
              locals.sql.table = "competitor_tracking"
        /\ (Truthy(Given) /\ ~IsAlias(Given) /\ jobs # <<>>) =>
              jobs[1].sql.table = "competitor_tracking"

\* query_type 'foo' with question 'campaign roi' ran the competitor-tracking query.
C1_Witness ==
    /\ pc = "done"
    /\ request.query_type = JStr("foo")
    /\ request.question = JStr("campaign roi")
    /\ response.status = 200
    /\ response.query_type = JStr("foo")
    /\ jobs[1].sql.table = "competitor_tracking"

\* C2: a request whose query_type is any JSON value other than one of the 8 aliases
\* does not fail because of it (no 500 unless the warehouse call fails) and is
\* handled as competitor_tracking: that builder, its insight rules, its summary fields.
C2_UnrecognizedHandledAsDefault ==
    (/\ pc = "done"
     /\ PlainRequest
     /\ request.limit = Absent
     /\ request.query_type # Absent
     /\ ~IsAlias(request.query_type)
     /\ exc \notin WarehouseErrors) =>
        /\ response.status = 200
        /\ jobs[1].sql.table = "competitor_tracking"
        /\ locals.analysis = analyze_pricing_results(locals.rows, JStr("competitor_tracking"))
        /\ CategoryFields(response.summary) =
              CategoryFields(calculate_pricing_summary(locals.rows, JStr("competitor_tracking")))

\* C3: for each of the 8 aliases the insights, recommendations, alerts and the
\* category fields of the summary are those the sibling alias of the same category
\* yields on the same rows.
C3_AliasAnalysedAsSibling ==
    (pc = "done" /\ response.status = 200 /\ IsAlias(Given)) =>
        LET sibling == JStr(Sibling(Given.s))
            other == analyze_pricing_results(locals.rows, sibling)
        IN  /\ response.insights = other.insights
            /\ response.recommendations = other.recommendations
            /\ response.alerts = other.alerts
            /\ CategoryFields(response.summary) =
                  CategoryFields(calculate_pricing_summary(locals.rows, sibling))

\* C4: for each of the 8 aliases the builder selected, and the query handed to the
\* warehouse, is the one of the alias's category (so the same as for its sibling),
\* whatever the question.
C4_AliasSelectsCategoryBuilder ==
    (PlainRequest /\ IsAlias(Given)) =>
        /\ "sql" \in DOMAIN locals => locals.sql.table = BuilderTable(CategoryOf(Given.s))
        /\ \A i \in 1..Len(jobs) : jobs[i].sql.table = BuilderTable(CategoryOf(Given.s))
        /\ pc \in {"fill", "execute", "analyze", "summarize", "respond"} => "sql" \in DOMAIN locals

\* 'campaign_analysis' with a question about budgets ran the campaign-performance query.
C4_Witness ==
    /\ pc = "done"
    /\ request.query_type = JStr("campaign_analysis")
    /\ request.question = JStr("Budget plan")
    /\ response.status = 200
    /\ jobs[1].sql.table = "campaign_performance"

\* C5: a 500 is returned only when the warehouse call fails: whenever the handler
\* has returned and no warehouse error was raised, the response is the success
\* envelope with status 200.
C5_OnlyWarehouseFails ==
    (pc = "done" /\ exc \notin WarehouseErrors) =>
        /\ response.status = 200
        /\ response.success = TRUE

\* The query type of the request once resolved: its own value when truthy, else the
\* classification of its question.
ResolvedType ==
    IF Truthy(Given) THEN Given ELSE detect_query_intent(BodyGet(request, "question", JStr(""))).value

\* Resolution completes: the body is an object (or falsy, read as {}) and either
\* the value is taken as given or the classifier accepts the question.
ResolutionCompletes ==
    /\ request.json.t = "object" \/ ~Truthy(request.json)
    /\ \/ (request.json.t = "object" /\ Truthy(Given))
       \/ LET q == IF request.json.t = "object" THEN BodyGet(request, "question", JStr("")) ELSE JStr("")
          IN  q.t = "str" \/ ~Truthy(q)

\* s is decimal digits, with or without a sign before them.
LooksLikeInteger(s) ==
    \/ AllDigits(s)
    \/ Len(s) > 1 /\ SubSeq(s, 1, 1) \in {"+", "-"} /\ AllDigits(SubSeq(s, 2, Len(s)))

\* The class of the first exception a request raises before the warehouse is
\* called, "" if none: statement by statement, lines 803, 804, 805 and 822.
ErrorBeforeWarehouse ==
    LET body == IF Truthy(request.json) THEN request ELSE EmptyBody
        lim == BodyGet(body, "limit", JInt(100))
        qt == BodyGet(body, "query_type", None)
    IN  IF body.json.t # "object" THEN "AttributeError"
        ELSE IF ~ResolutionCompletes THEN "AttributeError"
        ELSE IF lim.t \in {"null", "list", "object"} THEN "TypeError"
        ELSE IF lim.t = "str" /\ ~LooksLikeInteger(lim.s) THEN "ValueError"
        ELSE IF Truthy(qt) /\ qt.t \in {"list", "object"} THEN "TypeError"
        ELSE ""

\* C6: whenever a step of the handler raises, the response is status 500 with
\* success false, error_type the class of the exception raised, and query_type the
\* query type resolved for the request, or "unknown" exactly when the failure came
\* before the query type was resolved.
C6_ErrorEnvelope ==
    /\ (pc = "done" /\ exc # "") => response.status = 500
    /\ response.status = 500 =>
          /\ pc = "done"
          /\ response.success = FALSE
          /\ response.error_type = exc
          /\ IF ErrorBeforeWarehouse # ""
             THEN response.error_type = ErrorBeforeWarehouse /\ jobs = <<>>
             ELSE response.error_type \in WarehouseErrors /\ Len(jobs) = 1
          /\ response.query_type = IF ResolutionCompletes THEN ResolvedType ELSE JStr("unknown")
          /\ (response.query_type = JStr("unknown")) <=> ~ResolutionCompletes

\* limit 'abc' with query_type 'foo': a ValueError after the query type was resolved.
C6_Witness ==
    /\ pc = "done"
    /\ request.query_type = JStr("foo")
    /\ request.limit = JStr("abc")
    /\ response.status = 500
    /\ response.error_type = "ValueError"
    /\ response.query_type = JStr("foo")

\* C7: the limit handed to the warehouse as @limit, and echoed in parameters.limit,
\* is min(int(requested), 500), with 100 when limit is absent: never above 500,
\* and an integer <= 500, negative ones included, is passed through unchanged.
C7_LimitClampedAbove ==
    LET requested == BodyGet(request, "limit", JInt(100))
        sent(i) == LimitParam(jobs[i].sql, jobs[i].query_parameters)
    IN  /\ \A i \in 1..Len(jobs) :
              /\ sent(i).t = "int"
              /\ sent(i).n <= 500
              /\ request.limit = Absent => sent(i).n = 100
              /\ requested.t = "int" => sent(i).n = (IF requested.n > 500 THEN 500 ELSE requested.n)
              /\ requested = JFloat(5015) => sent(i).n = 500
              /\ requested = JFloat(-25) => sent(i).n = -2
              /\ requested = JStr("42") => sent(i).n = 42
              /\ requested = JBool(TRUE) => sent(i).n = 1
        /\ response.status = 200 => response.parameters.limit = sent(1)
        /\ pc = "execute" => LimitParam(locals.sql, locals.filled_params) = locals.limit

\* limit 10000 reached the warehouse as 500 and is echoed as 500.
C7_Witness ==
    /\ pc = "done"
    /\ request.limit = JInt(10000)
    /\ response.status = 200
    /\ response.parameters.limit = JInt(500)
    /\ LimitParam(jobs[1].sql, jobs[1].query_parameters) = JInt(500)

\* C8: within a request the warehouse query is executed at most once and never
\* retried; when it fails neither the analysis nor the summary runs and the
\* request ends with the 500 envelope; the analysis and the summary run only after
\* a successful execution, and the response is built only after both returned.
C8_ExecutedOnceNoRetry ==
    /\ Len(jobs) <= 1
    /\ exc \in WarehouseErrors =>
          /\ Len(jobs) = 1
          /\ {"rows", "analysis", "summary"} \cap DOMAIN locals = {}
          /\ pc \in {"except", "done"}
          /\ pc = "done" => response.status = 500
    /\ ({"analysis", "summary"} \cap DOMAIN locals # {}) =>
          /\ Len(jobs) = 1
          /\ "rows" \in DOMAIN locals
          /\ exc = ""
    /\ "summary" \in DOMAIN locals => "analysis" \in DOMAIN locals
    /\ response.status = 200 => {"analysis", "summary"} \subseteq DOMAIN locals
    /\ response # NoResponse => pc = "done"

\* The warehouse failed: one job, no analysis, no summary, a 500.
C8_Witness ==
    /\ pc = "done"
    /\ exc \in WarehouseErrors
    /\ Len(jobs) = 1
    /\ "analysis" \notin DOMAIN locals
    /\ response.status = 500

\* C10: for no rows analyze_pricing_results returns exactly one insight, exactly
\* one recommendation and no alert, the same for every query_type.
C10_EmptyRowsFallback ==
    (aresult # NoCall /\ arows = <<>>) =>
        /\ aresult.raised = ""
        /\ Len(aresult.value.insights) = 1
        /\ Len(aresult.value.recommendations) = 1
        /\ Len(aresult.value.alerts) = 0
        /\ aresult.value.insights[1].text = "Belirtilen kriterlere uygun pricing verisi bulunamad1"
        /\ aresult.value.recommendations[1].text = "Tarih aral191n1 veya kriterleri geni5letin"

\* No rows and an unrecognized query type.
C10_Witness ==
    /\ arows = <<>>
    /\ aquery_type = JStr("foo")
    /\ aresult # NoCall
    /\ Len(aresult.value.insights) = 1


\* C11: for an empty row list calculate_pricing_summary returns exactly
\* {total_records: 0}, whatever the query type.
C11_EmptyRowsSummary ==
    (sresult # NoCall /\ arows = <<>>) =>
        /\ sresult.raised = ""
        /\ DOMAIN sresult.value = {"total_records"}
        /\ sresult.value.total_records = 0

C11_Witness ==
    /\ arows = <<>>
    /\ aquery_type = JStr("campaign_performance")
    /\ sresult = Ret([total_records |-> 0])

\* C12 as stated: every summary, for an empty row list too, contains
\* total_records and a computation timestamp.
C12_AlwaysTimestamp ==
    sresult # NoCall =>
        /\ sresult.raised = ""
        /\ {"total_records", "timestamp"} \subseteq DOMAIN sresult.value

\* C12 amended: every summary contains total_records; the summary of a
\* non-empty row list also contains query_type and the timestamp, whatever
\* the query type and whether or not the category fields could be computed;
\* the summary of an empty row list has no timestamp.
C12_TimestampWhenRows ==
    sresult # NoCall =>
        /\ sresult.raised = ""
        /\ "total_records" \in DOMAIN sresult.value
        /\ arows # <<>> =>
              /\ {"query_type", "timestamp"} \subseteq DOMAIN sresult.value
              /\ sresult.value.timestamp = UtcNow
              /\ sresult.value.query_type = aquery_type
        /\ arows = <<>> => "timestamp" \notin DOMAIN sresult.value

\* A summary whose category fields raised (a NULL revenue) still has the timestamp.
C12_Witness ==
    /\ sresult # NoCall
    /\ aquery_type = JStr("campaign_performance")
    /\ Len(arows) = 1
    /\ "revenue_generated" \in DOMAIN arows[1]
    /\ arows[1].revenue_generated = None
    /\ DOMAIN sresult.value = {"total_records", "query_type", "timestamp"}

IsPrefix(xs, ys) == Len(xs) <= Len(ys) /\ xs = SubSeq(ys, 1, Len(xs))

\* C13: the result of analyze_pricing_results has at most 10 insights, 5
\* recommendations and 5 alerts, and each list is the first entries, in the
\* order they were appended, of what the rules appended: all of them when
\* they are no more than the cap.
C13_ListsCappedPrefixes ==
    aresult # NoCall =>
        LET appended == AnalysisRules(arows, aquery_type)
            result == aresult.value
        IN  /\ aresult.raised = ""
            /\ Len(result.insights) <= 10
            /\ Len(result.recommendations) <= 5
            /\ Len(result.alerts) <= 5
            /\ arows # <<>> =>
                  /\ IsPrefix(result.insights, appended.insights)
                  /\ Len(result.insights) = Min(Len(appended.insights), 10)
                  /\ IsPrefix(result.recommendations, appended.recommendations)
                  /\ Len(result.recommendations) = Min(Len(appended.recommendations), 5)
                  /\ IsPrefix(result.alerts, appended.alerts)
                  /\ Len(result.alerts) = Min(Len(appended.alerts), 5)

\* Two promotional rows that make every insight rule of the category fire.
C13_Witness ==
    /\ aresult # NoCall
    /\ aquery_type = JStr("promotional_calendar")
    /\ Len(arows) = 2
    /\ Len(aresult.value.insights) = 6
    /\ Len(aresult.value.recommendations) = 2
    /\ Len(aresult.value.alerts) = 1
    /\ aresult.value.insights[1].text = "[rocket] {n} kampanya y7ksek etki d757k maliyet kategorisinde"
    /\ aresult.value.insights[6].text = "[calendar] {n} uzun d8nemli kampanya planland1"

\* The rows are in and an insight rule raises on them.
RuleRaises ==
    /\ "rows" \in DOMAIN locals
    /\ locals.rows # <<>>
    /\ AnalysisRules(locals.rows, locals.query_type).raised # ""

\* C14: an exception raised by an insight rule on non-empty rows does not
\* abort the request: the analysis holds what was appended before the
\* failing rule, the summary is still computed and the response is 200.
C14_RuleErrorDoesNotAbort ==
    RuleRaises =>
        LET st == AnalysisRules(locals.rows, locals.query_type)
            gift == [campaign_name |-> JStr("Gift"), revenue_generated |-> None,
                     campaign_cost |-> JInt(50), roi_pct |-> JInt(550),
                     customer_acquisition |-> JInt(60), repeat_purchase_rate |-> JInt(30),
                     segment_cost_per_acquisition |-> None]
        IN  /\ pc \in {"analyze", "summarize", "respond", "done"}
            /\ exc = ""
            /\ pc \in {"summarize", "respond", "done"} =>
                  /\ "analysis" \in DOMAIN locals
                  /\ locals.analysis.insights = st.insights
                  /\ locals.analysis.recommendations = st.recommendations
                  /\ locals.analysis.alerts = st.alerts
                  /\ (locals.query_type = JStr("campaign_performance")
                        /\ locals.rows = <<CampaignRow(gift)>>) =>
                        locals.analysis.insights =
                            << Msg("[trophy] En ba5ar1l1 kampanya: {name} (ROI: %{roi})",
                                   "Gift|550", 0, 0) >>
            /\ pc \in {"respond", "done"} =>
                  /\ "summary" \in DOMAIN locals
                  /\ locals.summary.total_records = Len(locals.rows)
            /\ pc = "done" =>
                  /\ response.status = 200
                  /\ response.success
                  /\ response.summary = locals.summary
                  /\ response.insights = locals.analysis.insights
                  /\ response.row_count = Len(locals.rows)

\* The revenue total raised on a NULL revenue after the top campaign was reported.
C14_Witness ==
    /\ pc = "done"
    /\ RuleRaises
    /\ AnalysisRules(locals.rows, locals.query_type).raised = "TypeError"
    /\ locals.query_type = JStr("campaign_performance")
    /\ Len(locals.rows) = 1
    /\ response.status = 200
    /\ Len(response.insights) = 1
    /\ response.insights[1].s = "Gift|550"

\* The four fields calculate_pricing_summary adds for a category, and the
\* columns it adds up to compute them.
SummaryFields(query_type) ==
    CASE query_type = JStr("competitor_tracking") ->
            {"unique_competitors", "unique_markets", "avg_price_gap", "competitive_advantages"}
      [] query_type = JStr("campaign_performance") ->
            {"unique_campaigns", "total_revenue", "total_cost", "avg_roi"}
      [] query_type = JStr("price_elasticity") ->
            {"price_points_analyzed", "unique_markets", "avg_elasticity",
             "price_increase_opportunities"}
      [] query_type = JStr("promotional_calendar") ->
            {"planned_campaigns", "total_budget", "avg_expected_uplift", "unique_markets"}
      [] OTHER -> {}

SummedColumns(query_type) ==
    CASE query_type = JStr("competitor_tracking") -> {"price_gap_pct"}
      [] query_type = JStr("campaign_performance") ->
            {"revenue_generated", "campaign_cost", "roi_pct"}
      [] query_type = JStr("price_elasticity") -> {"elasticity_coefficient"}
      [] query_type = JStr("promotional_calendar") -> {"budget_usd", "expected_uplift_pct"}
      [] OTHER -> {}

\* Some row has a cell that is no number in a column the category adds up.
SumRaises(rows, query_type) ==
    \E i \in 1..Len(rows) : \E col \in SummedColumns(query_type) :
        col \in DOMAIN rows[i] /\ rows[i][col].t \notin {"int", "float64"}

\* C15: on non-empty rows calculate_pricing_summary does not raise, and its
\* result has total_records (the number of rows), query_type and timestamp,
\* plus either all four fields of the category or, when computing one of
\* them raised, none of them.
C15_SummaryAllOrNothing ==
    (sresult # NoCall /\ arows # <<>>) =>
        LET summary == sresult.value
            base == {"total_records", "query_type", "timestamp"}
        IN  /\ sresult.raised = ""
            /\ base \subseteq DOMAIN summary
            /\ summary.total_records = Len(arows)
            /\ summary.query_type = aquery_type
            /\ summary.timestamp = UtcNow
            /\ DOMAIN summary \ base \in {{}, SummaryFields(aquery_type)}
            /\ SumRaises(arows, aquery_type) => DOMAIN summary = base
            /\ ~SumRaises(arows, aquery_type) =>
                  DOMAIN summary = base \cup SummaryFields(aquery_type)

\* A NULL price gap in the second row: the counts of distinct competitors and
\* markets were computed before the sum raised, and none of the four fields is kept.
C15_Witness ==
    /\ sresult # NoCall
    /\ aquery_type = JStr("competitor_tracking")
    /\ Len(arows) = 2
    /\ "price_gap_pct" \in DOMAIN arows[1] /\ arows[1].price_gap_pct = JInt(-20)
    /\ "price_gap_pct" \in DOMAIN arows[2] /\ arows[2].price_gap_pct = None
    /\ DOMAIN sresult.value = {"total_records", "query_type", "timestamp"}
    /\ sresult.value.total_records = 2

\* The mean field of a category and the column it averages.
MeanField(query_type) ==
    CASE query_type = JStr("competitor_tracking") -> "avg_price_gap"
      [] query_type = JStr("campaign_performance") -> "avg_roi"
      [] query_type = JStr("price_elasticity") -> "avg_elasticity"
      [] query_type = JStr("promotional_calendar") -> "avg_expected_uplift"
      [] OTHER -> ""

MeanColumn(query_type) ==
    CASE query_type = JStr("competitor_tracking") -> "price_gap_pct"
      [] query_type = JStr("campaign_performance") -> "roi_pct"
      [] query_type = JStr("price_elasticity") -> "elasticity_coefficient"
      [] query_type = JStr("promotional_calendar") -> "expected_uplift_pct"
      [] OTHER -> ""

\* The total, in hundredths, of a column over the first k rows, a row without
\* the column counting as 0.
RECURSIVE ColumnTotal(_, _, _)
ColumnTotal(rows, col, k) ==
    IF k = 0 THEN 0
    ELSE ColumnTotal(rows, col, k - 1)
            + (IF col \in DOMAIN rows[k]
               THEN (IF rows[k][col].t = "float64" THEN rows[k][col].n ELSE 100 * rows[k][col].n)
               ELSE 0)

\* C16 as stated: on zero-row input the mean field of the category is there
\* and its value is 0.
C16_MeanZeroOnEmpty ==
    (sresult # NoCall /\ arows = <<>> /\ MeanField(aquery_type) # "") =>
        /\ sresult.raised = ""
        /\ MeanField(aquery_type) \in DOMAIN sresult.value
        /\ sresult.value[MeanField(aquery_type)].num = 0

\* C16 amended: the summary never raises; for zero rows it has no mean field;
\* for rows whose summed columns hold numbers only, the mean is the total of
\* its column (a row without the column counting as 0) over the number of
\* rows; when a summed column holds a NULL the mean field is absent.
C16_MeanOfRows ==
    (sresult # NoCall /\ MeanField(aquery_type) # "") =>
        LET field == MeanField(aquery_type)
        IN  /\ sresult.raised = ""
            /\ arows = <<>> => field \notin DOMAIN sresult.value
            /\ (arows # <<>> /\ SumRaises(arows, aquery_type)) =>
                  field \notin DOMAIN sresult.value
            /\ (arows # <<>> /\ ~SumRaises(arows, aquery_type)) =>
                  /\ field \in DOMAIN sresult.value
                  /\ sresult.value[field] =
                        [num |-> ColumnTotal(arows, MeanColumn(aquery_type), Len(arows)),
                         den |-> Len(arows)]

\* The mean ROI of a campaign row with ROI 600 and a row without the column: 600 / 2.
C16_Witness ==
    /\ sresult # NoCall
    /\ aquery_type = JStr("campaign_performance")
    /\ Len(arows) = 2
    /\ "roi_pct" \in DOMAIN arows[1] /\ arows[1].roi_pct = JInt(600)
    /\ "roi_pct" \notin DOMAIN arows[2]
    /\ "avg_roi" \in DOMAIN sresult.value
    /\ sresult.value.avg_roi = [num |-> 60000, den |-> 2]

\* The competitor query ran: row i of the result is row i of the table, labelled.
CompetitorRan == qtable.name = "competitor_tracking" /\ qresult # NoCall

\* The price gap of a table row in hundredths, as the CASE expressions read it.
GapKnown(raw) == raw.price_gap_pct.t \in {"int", "float64"}
GapOf(raw) ==
    IF raw.price_gap_pct.t = "float64" THEN raw.price_gap_pct.n ELSE 100 * raw.price_gap_pct.n

CampaignRan == qtable.name = "campaign_performance" /\ qresult # NoCall

\* C18: the campaign_performance_tier of a returned campaign row is
\* determined by the row's roi_pct with inclusive lower bounds: 500 and
\* above excellent, 300 up to 500 good, 200 up to 300 average, otherwise
\* poor; a row whose roi_pct is 500.0 is excellent.
C18_TierFromRowRoi ==
    CampaignRan =>
        \A i \in 1..Len(qresult.value.rows) :
            LET row == qresult.value.rows[i]
                known == row.roi_pct.t \in {"int", "float64"}
                roi == IF row.roi_pct.t = "float64" THEN row.roi_pct.n ELSE 100 * row.roi_pct.n
                tier == row.campaign_performance_tier.s
            IN  /\ (known /\ roi >= 50000) => tier = "[trophy] Excellent Campaign ROI"
                /\ (known /\ roi >= 30000 /\ roi < 50000) =>
                      tier = "[check] Good Campaign Performance"
                /\ (known /\ roi >= 20000 /\ roi < 30000) =>
                      tier = "[chart] Average Campaign Performance"
                /\ (~known \/ roi < 20000) => tier = "[down] Poor Campaign Performance"

\* C19: no string of the result reports a label count of 0: an insight or an
\* alert whose text carries the number of rows with a label ({n}) is there
\* only if that number is not zero.
C19_NoZeroCounts ==
    aresult # NoCall =>
        /\ \A i \in 1..Len(aresult.value.insights) :
              StrIn("{n}", aresult.value.insights[i].text) => aresult.value.insights[i].a > 0
        /\ \A i \in 1..Len(aresult.value.alerts) :
              StrIn("{n}", aresult.value.alerts[i].text) => aresult.value.alerts[i].a > 0

\* Rows i and j of the table are in the same (market, product_category) group.
SameGroup(i, j) ==
    /\ qtable.rows[i].market = qtable.rows[j].market
    /\ qtable.rows[i].product_category = qtable.rows[j].product_category

\* C20: the label of a row and the counters of its group agree: a row is
\* labelled 'Price Disadvantage' exactly when its group's price_disadvantages
\* counts it (gap >= 10), so that the counter is the number of rows of the
\* group with that label, and a row that price_advantages counts (gap <= -15)
\* is labelled 'Strong Price Advantage' or 'Dominant Market Position'.
C20_LabelsAgreeWithCounters ==
    CompetitorRan =>
        \A i \in 1..Len(qtable.rows) :
            LET raw == qtable.rows[i]
                row == qresult.value.rows[i]
                label(j) == qresult.value.rows[j].competitive_position.s
                counted_disadvantage ==
                    GapKnown(raw) /\ GapOf(raw) >= 100 * PRICE_DISADVANTAGE_THRESHOLD
                counted_advantage ==
                    GapKnown(raw) /\ GapOf(raw) <= 100 * PRICE_ADVANTAGE_THRESHOLD
            IN  /\ (label(i) = "[red] Price Disadvantage") <=> counted_disadvantage
                /\ row.price_disadvantages.n =
                      Cardinality({ j \in 1..Len(qtable.rows) :
                                      SameGroup(i, j) /\ label(j) = "[red] Price Disadvantage" })
                /\ counted_advantage =>
                      label(i) \in {"[money] Strong Price Advantage",
                                    "[trophy] Dominant Market Position"}

\* C21: every keyword of the table is effective for its own category: the
\* question that is exactly a keyword listed for a category is classified
\* into that category.
C21_EveryTermEffective ==
    (ires # NoCall /\ iq.t = "str") =>
        \A n \in 1..Len(CategoryOrder) :
            iq.s \in TermsOf(CategoryOrder[n]) => ires = Ret(JStr(CategoryOrder[n]))
====
